---- MODULE Spec2Model ----
(***************************************************************************)
(* A model of woke's rule-set composition (Config.ConfigureRules) and of   *)
(* its ignore subsystem (getDomainFromWorkingDir, GetRootGitDir,           *)
(* readIgnoreFile / readPatterns).                                         *)
(*                                                                         *)
(* Each of the four programs has its own specification (SpecConfig,        *)
(* SpecDomain, SpecGitRoot, SpecPatterns); the variables of the other      *)
(* programs stay at their idle values.                                     *)
(***************************************************************************)
EXTENDS Integers, Sequences, FiniteSets, TLC

VARIABLES
    \* ---- package config ----
    Rules,              \* Config.Rules: sequence of rule objects
    ExcludeCategories,  \* Config.ExcludeCategories
    IncludeNote,        \* Config.IncludeNote
    ruleState,          \* per rule object: what SetRegexp / SetIncludeNote stored
    DefaultRules,       \* rule.DefaultRules: the built-in rule set
    cpass,              \* number of ConfigureRules invocations so far
    loaded,             \* history: Config.Rules as loaded from the config file
    before,             \* history: Config.Rules when the last pass began
    merged,             \* history: Config.Rules after the merge loop of the last pass
    finalizedNow,       \* history: ids of the rules finalized by the last pass
    \* ---- getDomainFromWorkingDir ----
    workingDir,         \* the workingDir argument, a string (sequence of characters)
    gitRoot,            \* the gitRoot argument, a string
    domain,             \* the returned []string
    dpc,                \* "call" before the call, "done" after it returned
    \* ---- IgnoreFactory.GetRootGitDir ----
    gWorkingDir,        \* the workingDir argument: [rel, segs]
    cwd,                \* what os.Getwd gives: [ok, path]
    gitDirs,            \* the directories (absolute, as segment lists) holding a .git entry
    dir,                \* the local variable dir
    gpc,                \* "abs", "loop" or "done"
    gret,               \* the returned pair: [root, err]
    \* ---- readPatterns / readIgnoreFile ----
    dirs,               \* the directories of the filesystem, as segment lists
    patternKeepsSlice,  \* whether gitignore.ParsePattern keeps the domain slice it is given
    heap,               \* the backing arrays of the path slices
    stack,              \* the active readPatterns calls, the innermost last
    ret,                \* the (ps, err) a call has just returned, not yet taken
    rpc,                \* "run", "done" once the outermost call returned, "idle"
    filesLeft,          \* how many more ignore files may exist (bound)
    fsLog               \* history: the Open and ReadDir calls made, with their outcome

cfgVars == <<Rules, ExcludeCategories, IncludeNote, ruleState, DefaultRules,
             cpass, loaded, before, merged, finalizedNow>>

domVars == <<workingDir, gitRoot, domain, dpc>>

gitVars == <<gWorkingDir, cwd, gitDirs, dir, gpc, gret>>

patVars == <<dirs, patternKeepsSlice, heap, stack, ret, rpc, filesLeft, fsLog>>

vars == <<cfgVars, domVars, gitVars, patVars>>

(***************************************************************************)
(*                          package config                                 *)
(***************************************************************************)

\* Bounds of the model.
MaxRules == 3
MaxPasses == 2

CategoryNames == {"c1", "c2"}
ConfigurableNames == {"whitelist", "custom"}
RuleCategorySets == {{}, {"c1"}, {"c1", "c2"}}

\* A rule object: id is the pointer identity, Name and Categories its fields.
\* The built-in rule objects have ids above every configured rule's.
DefaultId(k) == 100 + k

WhitelistRule == [id |-> DefaultId(1), Name |-> "whitelist", Categories |-> {"c1"}]
BlacklistRule == [id |-> DefaultId(2), Name |-> "blacklist", Categories |-> {"c2"}]

\* The values of rule.DefaultRules considered: names pairwise distinct.
DefaultSets ==
    { <<WhitelistRule, BlacklistRule>>, <<BlacklistRule, WhitelistRule>>,
      <<BlacklistRule>> }

\* The rule lists a config file can hold: the i-th configured rule is object i.
ConfiguredRule(i) ==
    { [id |-> i, Name |-> n, Categories |-> cs] :
        n \in ConfigurableNames, cs \in RuleCategorySets }

RECURSIVE ConfiguredLists(_)
ConfiguredLists(n) ==
    IF n = 0 THEN { <<>> }
    ELSE LET shorter == ConfiguredLists(n - 1)
         IN shorter \cup
            { Append(l, r) : l \in { s \in shorter : Len(s) = n - 1 },
                             r \in ConfiguredRule(n) }

RuleIds == (1..MaxRules) \cup { WhitelistRule.id, BlacklistRule.id }

\* Rule.ContainsCategory: simple membership in the rule's category tags.
ContainsCategory(r, ex) == ex \in r.Categories

\* Mutation of inExistingRules: compares the rule objects, not their names.
inExistingRules_ByIdentity(rules, r) == \E i \in 1..Len(rules) : rules[i].id = r.id

\* Mutation of inExistingRules: the scan stops one rule short of the end.
inExistingRules_SkipLast(rules, r) ==
    \E i \in 1..(Len(rules) - 1) : rules[i].Name = r.Name

\* Config.inExistingRules
inExistingRules(rules, r) == \E i \in 1..Len(rules) : rules[i].Name = r.Name

\* The merge loop of ConfigureRules, from default rule k on.
RECURSIVE MergeDefaults(_, _)
MergeDefaults(rules, k) ==
    IF k > Len(DefaultRules) THEN rules
    ELSE MergeDefaults(IF ~inExistingRules(rules, DefaultRules[k])
                       THEN Append(rules, DefaultRules[k])
                       ELSE rules,
                       k + 1)

\* The inner loop of RuleLoop: some excluded category is one of the rule's.
IsExcluded(r, excl) == \E ex \in excl : ContainsCategory(r, ex)

\* excludedIndices as RuleLoop collects them (ascending; 1-based here).
RECURSIVE ExcludedIndicesFrom(_, _, _)
ExcludedIndicesFrom(rules, excl, i) ==
    IF i > Len(rules) THEN <<>>
    ELSE (IF IsExcluded(rules[i], excl) THEN <<i>> ELSE <<>>)
         \o ExcludedIndicesFrom(rules, excl, i + 1)

ExcludedIndices(rules, excl) == ExcludedIndicesFrom(rules, excl, 1)

\* The rules RuleLoop finalizes: the ones it does not skip.
FinalizedIds(rules, excl) ==
    { rules[i].id : i \in { j \in 1..Len(rules) : ~IsExcluded(rules[j], excl) } }

\* Config.RemoveRule (index 1-based here: Go's i is i - 1).
RemoveRule(rules, i) ==
    IF i > Len(rules) \/ i < 1 THEN rules
    ELSE SubSeq(rules, 1, i - 1) \o SubSeq(rules, i + 1, Len(rules))

\* The removal loop: RemoveRule on each collected index, in collection order,
\* each on the list the previous removal left.
RECURSIVE RemoveExcluded(_, _, _)
RemoveExcluded(rules, idxs, k) ==
    IF k > Len(idxs) THEN rules
    ELSE RemoveExcluded(RemoveRule(rules, idxs[k]), idxs, k + 1)

InitConfig ==
    /\ Rules \in ConfiguredLists(MaxRules)
    /\ ExcludeCategories \in SUBSET CategoryNames
    /\ IncludeNote \in BOOLEAN
    /\ ruleState = [id \in RuleIds |-> [regexp |-> FALSE, note |-> FALSE]]
    /\ DefaultRules \in DefaultSets
    /\ cpass = 0
    /\ loaded = Rules
    /\ before = <<>>
    /\ merged = <<>>
    /\ finalizedNow = {}

IdleConfig ==
    /\ Rules = <<>>
    /\ ExcludeCategories = {}
    /\ IncludeNote = FALSE
    /\ ruleState = [id \in RuleIds |-> [regexp |-> FALSE, note |-> FALSE]]
    /\ DefaultRules = <<>>
    /\ cpass = 0
    /\ loaded = <<>>
    /\ before = <<>>
    /\ merged = <<>>
    /\ finalizedNow = {}

IdleDomain ==
    /\ workingDir = <<>>
    /\ gitRoot = <<>>
    /\ domain = <<>>
    /\ dpc = "idle"

\* A nil billy.Filesystem, and the filesystem osfs.New(path) makes.
NilFilesystem == [nil |-> TRUE, rel |-> FALSE, segs |-> <<>>]
osfsNew(path) == [nil |-> FALSE, rel |-> path.rel, segs |-> path.segs]

\* Nothing returned yet.
NoResult == [root |-> NilFilesystem, err |-> "none"]

IdleGitRoot ==
    /\ gWorkingDir = [rel |-> FALSE, segs |-> <<>>]
    /\ cwd = [ok |-> TRUE, path |-> <<>>]
    /\ gitDirs = {}
    /\ dir = <<>>
    /\ gpc = "idle"
    /\ gret = NoResult

\* The nil error, and no patterns with it: what ret holds between returns.
NilErr == [op |-> "nil", at |-> <<>>, file |-> ""]
NoReturn == [set |-> FALSE, ps |-> <<>>, err |-> NilErr]

IdlePatterns ==
    /\ dirs = {}
    /\ patternKeepsSlice = FALSE
    /\ heap = <<>>
    /\ stack = <<>>
    /\ ret = NoReturn
    /\ rpc = "idle"
    /\ filesLeft = 0
    /\ fsLog = <<>>

\* Config.ConfigureRules, the whole method.
ConfigureRules ==
    /\ cpass < MaxPasses
    /\ LET m    == MergeDefaults(Rules, 1)
           idxs == ExcludedIndices(m, ExcludeCategories)
           fin  == FinalizedIds(m, ExcludeCategories)
       IN /\ before' = Rules
          /\ merged' = m
          /\ finalizedNow' = fin
          /\ ruleState' = [id \in RuleIds |->
                             IF id \in fin
                             THEN [regexp |-> TRUE, note |-> IncludeNote]
                             ELSE ruleState[id]]
          /\ Rules' = RemoveExcluded(m, idxs, 1)
    /\ cpass' = cpass + 1
    /\ UNCHANGED <<ExcludeCategories, IncludeNote, DefaultRules, loaded>>
    /\ UNCHANGED <<domVars, gitVars, patVars>>

NextConfig == ConfigureRules

InitSpecConfig == InitConfig /\ IdleDomain /\ IdleGitRoot /\ IdlePatterns

SpecConfig == InitSpecConfig /\ [][NextConfig]_vars

(***************************************************************************)
(*                     Properties of package config                        *)
(***************************************************************************)

Occurrences(rules, id) == Cardinality({ i \in 1..Len(rules) : rules[i].id = id })

NamesOf(rules) == { rules[i].Name : i \in 1..Len(rules) }

NamesDistinct(rules) ==
    \A i, j \in 1..Len(rules) : i # j => rules[i].Name # rules[j].Name

\* C1: after ConfigureRules returns, every rule of the merged list that has a
\* category in ExcludeCategories is absent from Config.Rules, and every other
\* rule of the merged list is in Config.Rules exactly once.
C1_ExcludedAbsentOthersOnce ==
    cpass >= 1 =>
        \A i \in 1..Len(merged) :
            IF IsExcluded(merged[i], ExcludeCategories)
            THEN Occurrences(Rules, merged[i].id) = 0
            ELSE Occurrences(Rules, merged[i].id) = 1

\* The default rules whose name no rule of the list has, in default-set order.
MissingDefaults(rules) ==
    SelectSeq(DefaultRules, LAMBDA d : d.Name \notin NamesOf(rules))

\* C2: the merge step keeps the rules already in Config.Rules in place and
\* appends after them exactly the default rules whose name none of them has, in
\* default-set order; with an empty exclusion set the final list is that
\* merged list.
C2_MergeAppendsMissingDefaults ==
    cpass >= 1 =>
        /\ merged = before \o MissingDefaults(before)
        /\ ExcludeCategories = {} => Rules = merged

\* A pass on a configuration that has a rule named like a default and a rule
\* of its own, nothing excluded: one default was appended, one was not.
C2_Witness ==
    /\ cpass = 1
    /\ ExcludeCategories = {}
    /\ NamesOf(loaded) = {"whitelist", "custom"}
    /\ Len(DefaultRules) = 2
    /\ Len(Rules) = Len(loaded) + 1

\* C3 as stated: rule names are pairwise distinct in Config.Rules after any
\* number of ConfigureRules passes, whatever the configured rule list.
C3_NamesDistinctAlways == cpass >= 1 => NamesDistinct(Rules)

\* C3 amended: when the configured names are pairwise distinct, so are the
\* names in Config.Rules after every pass; and whatever the configured list,
\* no pass appends a rule whose name the list already has.
C3_NamesDistinctIfConfiguredDistinct ==
    cpass >= 1 =>
        /\ NamesDistinct(loaded) => NamesDistinct(Rules)
        /\ \A i \in (Len(before) + 1)..Len(merged) :
               \A j \in 1..(i - 1) : merged[j].Name # merged[i].Name

\* A second pass over a composed list that had lost a default rule to the
\* exclusion: the merge appends it again, and nothing else.
C3_Witness ==
    /\ cpass = 2
    /\ NamesDistinct(loaded)
    /\ Len(loaded) = 2
    /\ Len(merged) = Len(before) + 1
    /\ Len(before) >= 2

\* C10: after ConfigureRules returns, every rule in Config.Rules was
\* finalized by that pass: SetRegexp was called on it, and SetIncludeNote with
\* the configuration's IncludeNote.
C10_AllRemainingFinalized ==
    cpass >= 1 =>
        \A i \in 1..Len(Rules) :
            /\ Rules[i].id \in finalizedNow
            /\ ruleState[Rules[i].id] = [regexp |-> TRUE, note |-> IncludeNote]

(***************************************************************************)
(*              package ignore: getDomainFromWorkingDir                    *)
(***************************************************************************)

\* Bounds of the model: the lengths of the two path strings.
MaxWorkingDir == 6
MaxGitRoot == 3

\* string(os.PathSeparator)
PathSeparator == <<"/">>

\* The characters of the path strings considered.
PathChars == {"/", "a", "b"}

RECURSIVE StringsUpTo(_)
StringsUpTo(n) ==
    IF n = 0 THEN { <<>> }
    ELSE LET shorter == StringsUpTo(n - 1)
         IN shorter \cup
            { Append(t, ch) : t \in { u \in shorter : Len(u) = n - 1 },
                              ch \in PathChars }

\* strings.HasSuffix
HasSuffix(str, suffix) ==
    /\ Len(str) >= Len(suffix)
    /\ SubSeq(str, Len(str) - Len(suffix) + 1, Len(str)) = suffix

\* strings.Index for a non-empty sep: the first position (1-based) where sep
\* occurs in str, 0 when it does not occur.
Index(str, sep) ==
    LET hits == { i \in 1..(Len(str) - Len(sep) + 1) :
                    SubSeq(str, i, i + Len(sep) - 1) = sep }
    IN IF hits = {} THEN 0 ELSE CHOOSE i \in hits : \A j \in hits : i <= j

\* strings.SplitN(str, sep, 2) for a non-empty sep.
SplitN2(str, sep) ==
    LET i == Index(str, sep)
    IN IF i = 0 THEN << str >>
       ELSE << SubSeq(str, 1, i - 1), SubSeq(str, i + Len(sep), Len(str)) >>

\* strings.Split(str, sep) for a non-empty sep.
RECURSIVE Split(_, _)
Split(str, sep) ==
    LET i == Index(str, sep)
    IN IF i = 0 THEN << str >>
       ELSE << SubSeq(str, 1, i - 1) >>
            \o Split(SubSeq(str, i + Len(sep), Len(str)), sep)

\* util.FilterEmptyStrings: the strings of the list that are not empty.
FilterEmptyStrings(strs) == SelectSeq(strs, LAMBDA x : x # <<>>)

\* Mutation of getDomainFromWorkingDir: strings.Split where the code has
\* strings.SplitN(.., 2), so res[1] ends at the next occurrence of gitRoot.
getDomainFromWorkingDir_SplitAll(wd, root) ==
    LET withSep == IF ~HasSuffix(root, PathSeparator)
                   THEN root \o PathSeparator
                   ELSE root
        res == Split(wd, withSep)
    IN IF Len(res) > 1
       THEN FilterEmptyStrings(Split(res[2], PathSeparator))
       ELSE <<>>

\* getDomainFromWorkingDir
getDomainFromWorkingDir(wd, root) ==
    LET withSep == IF ~HasSuffix(root, PathSeparator)
                   THEN root \o PathSeparator
                   ELSE root
        res == SplitN2(wd, withSep)
    IN IF Len(res) > 1
       THEN FilterEmptyStrings(Split(res[2], PathSeparator))
       ELSE <<>>

\* Rooted path names: what os.Getwd and GetRootGitDir's filepath.Abs return.
RootedPaths(n) == { PathSeparator \o t : t \in StringsUpTo(n - 1) }

InitDomain ==
    /\ workingDir \in RootedPaths(MaxWorkingDir)
    /\ gitRoot \in RootedPaths(MaxGitRoot)
    /\ domain = <<>>
    /\ dpc = "call"

\* The call domain := getDomainFromWorkingDir(cwd, filesystem.Root()).
ResolveDomain ==
    /\ dpc = "call"
    /\ domain' = getDomainFromWorkingDir(workingDir, gitRoot)
    /\ dpc' = "done"
    /\ UNCHANGED <<workingDir, gitRoot>>
    /\ UNCHANGED <<cfgVars, gitVars, patVars>>

NextDomain == ResolveDomain

InitSpecDomain == InitDomain /\ IdleConfig /\ IdleGitRoot /\ IdlePatterns

SpecDomain == InitSpecDomain /\ [][NextDomain]_vars

(***************************************************************************)
(*               Properties of getDomainFromWorkingDir                     *)
(***************************************************************************)

HasPrefix(str, prefix) ==
    Len(str) >= Len(prefix) /\ SubSeq(str, 1, Len(prefix)) = prefix

\* gitRoot taken with a trailing separator.
WithSeparator(root) ==
    IF HasSuffix(root, PathSeparator) THEN root ELSE root \o PathSeparator

\* gitRoot taken without its trailing separator.
WithoutSeparator(root) ==
    IF HasSuffix(root, PathSeparator) THEN SubSeq(root, 1, Len(root) - 1) ELSE root

\* C4: the domain is empty whenever workingDir does not begin with gitRoot
\* (taken with a trailing separator), also when gitRoot occurs later in it.
C4_EmptyUnlessPrefix ==
    (dpc = "done" /\ ~HasPrefix(workingDir, WithSeparator(gitRoot)))
        => domain = <<>>

\* The segments considered: strings without a separator.
RECURSIVE SegmentsUpTo(_)
SegmentsUpTo(n) ==
    IF n = 0 THEN { <<>> }
    ELSE LET shorter == SegmentsUpTo(n - 1)
         IN shorter \cup
            { Append(t, ch) : t \in { u \in shorter : Len(u) = n - 1 },
                              ch \in PathChars \ {"/"} }

\* The lists of segments that, each after a separator, take n characters.
RECURSIVE SegmentLists(_)
SegmentLists(n) ==
    IF n = 0 THEN { <<>> }
    ELSE UNION { { << seg >> \o rest : rest \in SegmentLists(n - Len(seg) - 1) } :
                 seg \in SegmentsUpTo(n - 1) }

\* The path made of the segments, a separator before each.
RECURSIVE Joined(_)
Joined(segs) ==
    IF segs = <<>> THEN <<>>
    ELSE PathSeparator \o Head(segs) \o Joined(Tail(segs))

RECURSIVE NonEmptySegments(_)
NonEmptySegments(segs) ==
    IF segs = <<>> THEN <<>>
    ELSE (IF Len(Head(segs)) > 0 THEN << Head(segs) >> ELSE <<>>)
         \o NonEmptySegments(Tail(segs))

\* The part of workingDir after gitRoot (its trailing separator apart).
BelowRoot == SubSeq(workingDir, Len(WithoutSeparator(gitRoot)) + 1, Len(workingDir))

\* C5: when workingDir is gitRoot followed by separator-delimited segments, the
\* domain is exactly the non-empty segments in order; it is empty when
\* workingDir equals gitRoot; it is the same for gitRoot with and without
\* its trailing separator; and it never holds an empty segment.
C5_DomainIsSegmentsBelowRoot ==
    dpc = "done" =>
        /\ HasPrefix(workingDir, WithoutSeparator(gitRoot)) =>
               \A segs \in SegmentLists(Len(BelowRoot)) :
                   Joined(segs) = BelowRoot => domain = NonEmptySegments(segs)
        /\ workingDir = gitRoot => domain = <<>>
        /\ getDomainFromWorkingDir(workingDir, WithSeparator(gitRoot)) = domain
        /\ ~HasSuffix(WithoutSeparator(gitRoot), PathSeparator) =>
               getDomainFromWorkingDir(workingDir, WithoutSeparator(gitRoot)) = domain
        /\ \A i \in 1..Len(domain) : domain[i] # <<>>

\* workingDir is gitRoot followed by two segments, and the domain is the two.
C5_Witness ==
    /\ dpc = "done"
    /\ gitRoot = <<"/", "a">>
    /\ workingDir = <<"/", "a", "/", "b", "/", "a">>
    /\ domain = << <<"b">>, <<"a">> >>

(***************************************************************************)
(*              package ignore: IgnoreFactory.GetRootGitDir                *)
(***************************************************************************)

\* Bounds of the model: the depth of the workingDir argument and of the
\* current directory.
MaxArgDepth == 2
MaxCwdDepth == 1

DirNames == {"a", "b"}

RECURSIVE DirsUpTo(_)
DirsUpTo(n) ==
    IF n = 0 THEN { <<>> }
    ELSE LET shorter == DirsUpTo(n - 1)
         IN shorter \cup
            { Append(t, nm) : t \in { u \in shorter : Len(u) = n - 1 },
                              nm \in DirNames }

\* filepath.Abs (the factory's filepathAbs): a rooted path is returned as it
\* is, another one is joined to the current directory, and there is an error
\* when the current directory cannot be had.
filepathAbs(wd) ==
    IF ~wd.rel THEN [path |-> wd.segs, err |-> "nil"]
    ELSE IF ~cwd.ok THEN [path |-> <<>>, err |-> "getwd"]
    ELSE [path |-> cwd.path \o wd.segs, err |-> "nil"]

\* filepath.Dir of a clean path: all but its last element, the root for the root.
filepathDir(path) ==
    IF path = <<>> THEN path ELSE SubSeq(path, 1, Len(path) - 1)

\* os.Stat(filepath.Join(d, ".git")) returned no error.
StatGitOk(d) == d \in gitDirs

\* osfs.New(d) for the rooted directory d.
RootedAt(d) == osfsNew([rel |-> FALSE, segs |-> d])

\* Mutation of FallbackRoot: the filesystem root reached, not workingDir.
FallbackRoot_SearchRoot(wd, d) == RootedAt(d)

\* The root of the filesystem returned when no .git was found: osfs.New(workingDir).
FallbackRoot(wd, d) == osfsNew(wd)

Prefixes(path) == { SubSeq(path, 1, l) : l \in 0..Len(path) }

InitGitRoot ==
    /\ gWorkingDir \in [rel : BOOLEAN, segs : DirsUpTo(MaxArgDepth)]
    /\ cwd \in { [ok |-> TRUE, path |-> d] : d \in DirsUpTo(MaxCwdDepth) }
               \cup { [ok |-> FALSE, path |-> <<>>] }
    /\ gitDirs \in SUBSET Prefixes(filepathAbs(gWorkingDir).path)
    /\ dir = <<>>
    /\ gpc = "abs"
    /\ gret = NoResult

\* dir, err := iFactory.filepathAbs(workingDir), and the return on an error.
ResolveAbs ==
    /\ gpc = "abs"
    /\ LET r == filepathAbs(gWorkingDir)
       IN IF r.err # "nil"
          THEN /\ gret' = [root |-> NilFilesystem, err |-> r.err]
               /\ gpc' = "done"
               /\ dir' = dir
          ELSE /\ dir' = r.path
               /\ gpc' = "loop"
               /\ gret' = gret
    /\ UNCHANGED <<gWorkingDir, cwd, gitDirs>>
    /\ UNCHANGED <<cfgVars, domVars, patVars>>

\* One iteration of the loop where .git is found in dir.
FoundGit ==
    /\ gpc = "loop"
    /\ StatGitOk(dir)
    /\ gret' = [root |-> RootedAt(dir), err |-> "nil"]
    /\ gpc' = "done"
    /\ UNCHANGED <<gWorkingDir, cwd, gitDirs, dir>>
    /\ UNCHANGED <<cfgVars, domVars, patVars>>

\* One iteration where it is not found and dir has a parent.
WalkUp ==
    /\ gpc = "loop"
    /\ ~StatGitOk(dir)
    /\ filepathDir(dir) # dir
    /\ dir' = filepathDir(dir)
    /\ UNCHANGED <<gWorkingDir, cwd, gitDirs, gpc, gret>>
    /\ UNCHANGED <<cfgVars, domVars, patVars>>

\* One iteration where it is not found and dir is its own parent.
NoGitRoot ==
    /\ gpc = "loop"
    /\ ~StatGitOk(dir)
    /\ filepathDir(dir) = dir
    /\ gret' = [root |-> FallbackRoot(gWorkingDir, dir), err |-> "nil"]
    /\ gpc' = "done"
    /\ UNCHANGED <<gWorkingDir, cwd, gitDirs, dir>>
    /\ UNCHANGED <<cfgVars, domVars, patVars>>

NextGitRoot == ResolveAbs \/ FoundGit \/ WalkUp \/ NoGitRoot

\* The method runs to its return: no step of it waits on anything.
InitSpecGitRoot == InitGitRoot /\ IdleConfig /\ IdleDomain /\ IdlePatterns

SpecGitRoot ==
    /\ InitSpecGitRoot
    /\ [][NextGitRoot]_vars
    /\ WF_vars(NextGitRoot)

(***************************************************************************)
(*                     Properties of GetRootGitDir                         *)
(***************************************************************************)

\* The directories from the absolute working directory up that hold .git.
GitAncestors == gitDirs \cap Prefixes(filepathAbs(gWorkingDir).path)

\* The nearest of them: the longest.
NearestGitDir ==
    CHOOSE d \in GitAncestors : \A e \in GitAncestors : Len(e) <= Len(d)

GitRootResultRight ==
    IF filepathAbs(gWorkingDir).err # "nil"
    THEN gret.err # "nil"
    ELSE /\ gret.err = "nil"
         /\ gret.root = IF GitAncestors # {}
                        THEN RootedAt(NearestGitDir)
                        ELSE osfsNew(gWorkingDir)

\* C6: GetRootGitDir returns; with an absolute path resolved it returns no
\* error and a filesystem rooted at the nearest directory, from the absolute
\* working directory up, that holds .git, or at the original workingDir when
\* none does; it returns an error only when the resolution fails.
C6_TerminatesAtNearestGitDirOrWorkingDir ==
    /\ [](gpc = "done" => GitRootResultRight)
    /\ <>(gpc = "done")

\* A relative workingDir two levels below the current directory, no .git up
\* to the root: the walk went all the way up and returned workingDir itself.
C6_Witness ==
    /\ gpc = "done"
    /\ gWorkingDir.rel
    /\ Len(filepathAbs(gWorkingDir).path) = MaxArgDepth + MaxCwdDepth
    /\ gitDirs = {}
    /\ dir = <<>>
    /\ gret = [root |-> osfsNew(gWorkingDir), err |-> "nil"]

(***************************************************************************)
(*            package ignore: readIgnoreFile and readPatterns              *)
(***************************************************************************)

\* Bounds of the model: the depth of the directory tree and the number of
\* ignore files that exist in it.
MaxTreeDepth == 4
MaxFiles == 2

\* const gitDir
gitDir == ".git"

\* var defaultIgnoreFiles
defaultIgnoreFiles == << ".gitignore", ".ignore", ".wokeignore", ".git/info/exclude" >>

\* const commentPrefix
commentPrefix == << "#" >>

\* The directory trees considered: a chain a/a/.. of some depth, alone or
\* with a directory b beside the deepest a, and a .git directory (which has
\* a directory of its own) at the root.
RECURSIVE ChainDir(_)
ChainDir(n) == IF n = 0 THEN <<>> ELSE Append(ChainDir(n - 1), "a")

Chain(n) == { ChainDir(k) : k \in 0..n }
Fork(n) == Chain(n) \cup (IF n = 0 THEN {} ELSE { Append(ChainDir(n - 1), "b") })
GitMetadata == { << gitDir >>, << gitDir, "info" >> }

TreeShapes ==
    { t \cup GitMetadata : t \in UNION { { Chain(n), Fork(n) } : n \in 0..MaxTreeDepth } }

\* fs.ReadDir of the directory at: its entries sorted by name; the root also
\* holds a regular file.
EntryNames == << gitDir, "README", "a", "b" >>

Listing(at) ==
    LET present(nm) == \/ Append(at, nm) \in dirs
                       \/ (nm = "README" /\ at = <<>>)
        names == SelectSeq(EntryNames, present)
    IN [ i \in 1..Len(names) |->
           [name |-> names[i], isDir |-> Append(at, names[i]) \in dirs] ]

\* What an ignore file that exists holds, as lines (strings of characters): a
\* .gitignore a comment, a pattern, an empty line, a blank line and an
\* indented pattern, any other file one pattern.
FileContent(file) ==
    IF file = ".gitignore"
    THEN << << "#", "c" >>, << "y" >>, <<>>, << " " >>, << " ", "!", "z" >> >>
    ELSE << << "x" >> >>

\* strings.TrimSpace, for the one white-space character considered.
RECURSIVE TrimSpace(_)
TrimSpace(str) ==
    IF str = <<>> THEN str
    ELSE IF Head(str) = " " THEN TrimSpace(Tail(str))
    ELSE IF str[Len(str)] = " " THEN TrimSpace(SubSeq(str, 1, Len(str) - 1))
    ELSE str

\* The nil slice, and the elements of a slice.
NilSlice == [arr |-> 0, len |-> 0, cap |-> 0]

SliceElems(h, sl) == IF sl.len = 0 THEN <<>> ELSE SubSeq(h[sl.arr], 1, sl.len)

\* The capacity Go's append gives the new array when one element does not fit.
GrowCap(c) == IF c = 0 THEN 1 ELSE 2 * c

\* append(sl, x): the slice returned, and the heap after it. Within the
\* capacity the element is written into the shared backing array.
AppendSlice(h, sl, x) ==
    IF sl.len < sl.cap THEN [sl EXCEPT !.len = sl.len + 1]
    ELSE [arr |-> Len(h) + 1, len |-> sl.len + 1, cap |-> GrowCap(sl.cap)]

AppendHeap(h, sl, x) ==
    IF sl.len < sl.cap THEN [h EXCEPT ![sl.arr][sl.len + 1] = x]
    ELSE Append(h, SliceElems(h, sl) \o << x >>
                   \o [ i \in 1..(GrowCap(sl.cap) - sl.len - 1) |-> "" ])

\* The heap after fs.Join(append(path, ignoreFile)...): the slice made is
\* dropped at once, so only a write within the capacity is left of it.
JoinAppendHeap(h, sl, x) ==
    IF sl.len < sl.cap THEN [h EXCEPT ![sl.arr][sl.len + 1] = x] ELSE h

\* gitignore.ParsePattern(text, path): the pattern holds the domain, either
\* the slice itself or a copy of its elements. at, file and lineNo record
\* where the line was read.
ParsePattern(h, text, path, at, file, lineNo) ==
    [ text |-> text, at |-> at, file |-> file, lineNo |-> lineNo,
      shared |-> patternKeepsSlice,
      slice |-> IF patternKeepsSlice THEN path ELSE NilSlice,
      copy |-> IF patternKeepsSlice THEN <<>> ELSE SliceElems(h, path) ]

\* The domain a pattern has now.
DomainOf(h, pat) == IF pat.shared THEN SliceElems(h, pat.slice) ELSE pat.copy

\* The test of readIgnoreFile's scan loop: the line becomes a pattern.
IsPatternLine(line) ==
    ~HasPrefix(line, commentPrefix) /\ Len(TrimSpace(line)) > 0

\* The scan loop of readIgnoreFile from line k on.
RECURSIVE ScanLines(_, _, _, _, _, _)
ScanLines(h, lines, k, path, at, file) ==
    IF k > Len(lines) THEN <<>>
    ELSE (IF IsPatternLine(lines[k])
          THEN << ParsePattern(h, lines[k], path, at, file, k) >>
          ELSE <<>>)
         \o ScanLines(h, lines, k + 1, path, at, file)

\* Mutation of readIgnoreFileErr: every Open error is dropped.
readIgnoreFileErr_DropAll(openErr, notExist) == NilErr

\* The error readIgnoreFile returns after a failed Open: nil for
\* os.ErrNotExist, the error itself otherwise.
readIgnoreFileErr(openErr, notExist) == IF notExist THEN NilErr ELSE openErr

\* Mutation of AppendPatterns: the new patterns go in front.
AppendPatterns_InFront(ps, subps) ==
    IF Len(subps) > 0 THEN subps \o ps ELSE ps

\* if len(subps) > 0 { ps = append(ps, subps...) }
AppendPatterns(ps, subps) ==
    IF Len(subps) > 0 THEN ps \o subps ELSE ps

\* A readPatterns call that has just begun: path is its argument, at the
\* directory it really stands for.
NewFrame(path, at) ==
    [ path |-> path, at |-> at, pc |-> "files", fileIdx |-> 1,
      fis |-> <<>>, fiIdx |-> 1, ps |-> <<>> ]

InitPatterns ==
    /\ dirs \in TreeShapes
    /\ patternKeepsSlice \in BOOLEAN
    /\ heap = <<>>
    /\ stack = << NewFrame(NilSlice, <<>>) >>
    /\ ret = NoReturn
    /\ rpc = "run"
    /\ filesLeft = MaxFiles
    /\ fsLog = <<>>

Top == stack[Len(stack)]
Running == rpc = "run" /\ ~ret.set
PatFrame == UNCHANGED <<cfgVars, domVars, gitVars, dirs, patternKeepsSlice>>

\* The innermost call goes on with the frame f.
Continue(f) ==
    /\ stack' = [stack EXCEPT ![Len(stack)] = f]
    /\ ret' = NoReturn
    /\ rpc' = rpc

\* The innermost call returns (ps, err).
Return(ps, err) ==
    /\ stack' = SubSeq(stack, 1, Len(stack) - 1)
    /\ ret' = [set |-> TRUE, ps |-> ps, err |-> err]
    /\ rpc' = IF Len(stack) = 1 THEN "done" ELSE "run"

\* The frame after one more ignore file was read without an error.
AfterFile(f, ps) ==
    [f EXCEPT !.ps = ps,
              !.fileIdx = f.fileIdx + 1,
              !.pc = IF f.fileIdx = Len(defaultIgnoreFiles) THEN "readdir" ELSE "files"]

Logged(op, at, file, outcome) ==
    Append(fsLog, [op |-> op, at |-> at, file |-> file, outcome |-> outcome])

\* One turn of the filename loop where fs.Open fails: readIgnoreFile returns
\* no patterns and its error, on which readPatterns returns.
OpenError(notExist) ==
    /\ LET file == defaultIgnoreFiles[Top.fileIdx]
           openErr == [op |-> "open", at |-> Top.at, file |-> file]
           err == readIgnoreFileErr(openErr, notExist)
       IN /\ heap' = JoinAppendHeap(JoinAppendHeap(heap, Top.path, file), Top.path, file)
          /\ fsLog' = Logged("open", Top.at, file,
                             IF notExist THEN "notexist" ELSE "error")
          /\ IF err # NilErr
             THEN Return(Top.ps, err)
             ELSE Continue(AfterFile(Top, AppendPatterns(Top.ps, <<>>)))
    /\ UNCHANGED filesLeft
    /\ PatFrame

\* The ignore file does not exist.
OpenMissing ==
    /\ Running /\ Top.pc = "files"
    /\ OpenError(TRUE)

\* The ignore file cannot be opened for another reason.
OpenFails ==
    /\ Running /\ Top.pc = "files"
    /\ OpenError(FALSE)

\* One turn of the filename loop where the file is opened and scanned.
OpenReads ==
    /\ Running /\ Top.pc = "files"
    /\ filesLeft > 0
    /\ LET file == defaultIgnoreFiles[Top.fileIdx]
           h == JoinAppendHeap(heap, Top.path, file)
           subps == ScanLines(h, FileContent(file), 1, Top.path, Top.at, Top.fileIdx)
       IN /\ heap' = h
          /\ fsLog' = Logged("open", Top.at, file, "ok")
          /\ Continue(AfterFile(Top, AppendPatterns(Top.ps, subps)))
    /\ filesLeft' = filesLeft - 1
    /\ PatFrame

\* fs.ReadDir fails: readPatterns returns what it has and the error.
ReadDirFails ==
    /\ Running /\ Top.pc = "readdir"
    /\ fsLog' = Logged("readdir", Top.at, "", "error")
    /\ Return(Top.ps, [op |-> "readdir", at |-> Top.at, file |-> ""])
    /\ UNCHANGED <<heap, filesLeft>>
    /\ PatFrame

\* fs.ReadDir lists the directory.
ReadDirLists ==
    /\ Running /\ Top.pc = "readdir"
    /\ fsLog' = Logged("readdir", Top.at, "", "ok")
    /\ Continue([Top EXCEPT !.fis = Listing(Top.at), !.fiIdx = 1, !.pc = "entries"])
    /\ UNCHANGED <<heap, filesLeft>>
    /\ PatFrame

\* The entry the loop over fis is at is a directory other than .git.
EntryIsSubdir ==
    /\ Top.fiIdx <= Len(Top.fis)
    /\ Top.fis[Top.fiIdx].isDir
    /\ Top.fis[Top.fiIdx].name # gitDir

\* One turn of the loop over fis that reads nothing.
SkipEntry ==
    /\ Running /\ Top.pc = "entries"
    /\ Top.fiIdx <= Len(Top.fis)
    /\ ~EntryIsSubdir
    /\ Continue([Top EXCEPT !.fiIdx = Top.fiIdx + 1])
    /\ UNCHANGED <<heap, filesLeft, fsLog>>
    /\ PatFrame

\* The call readPatterns(fs, append(path, fi.Name())).
Descend ==
    /\ Running /\ Top.pc = "entries"
    /\ EntryIsSubdir
    /\ LET name == Top.fis[Top.fiIdx].name
       IN /\ heap' = AppendHeap(heap, Top.path, name)
          /\ stack' = Append([stack EXCEPT ![Len(stack)].pc = "wait"],
                              NewFrame(AppendSlice(heap, Top.path, name),
                                       Append(Top.at, name)))
    /\ UNCHANGED <<ret, rpc, filesLeft, fsLog>>
    /\ PatFrame

\* The loop over fis is over: return ps, nil.
ReturnAll ==
    /\ Running /\ Top.pc = "entries"
    /\ Top.fiIdx > Len(Top.fis)
    /\ Return(Top.ps, NilErr)
    /\ UNCHANGED <<heap, filesLeft, fsLog>>
    /\ PatFrame

\* The recursive call returned no error: its patterns are appended.
TakeSubPatterns ==
    /\ rpc = "run" /\ ret.set /\ ret.err = NilErr
    /\ Continue([Top EXCEPT !.ps = AppendPatterns(Top.ps, ret.ps),
                             !.fiIdx = Top.fiIdx + 1,
                             !.pc = "entries"])
    /\ UNCHANGED <<heap, filesLeft, fsLog>>
    /\ PatFrame

\* The recursive call returned an error: return ps, err.
PropagateError ==
    /\ rpc = "run" /\ ret.set /\ ret.err # NilErr
    /\ Return(Top.ps, ret.err)
    /\ UNCHANGED <<heap, filesLeft, fsLog>>
    /\ PatFrame

NextPatterns ==
    \/ OpenMissing \/ OpenFails \/ OpenReads
    \/ ReadDirFails \/ ReadDirLists
    \/ SkipEntry \/ Descend \/ ReturnAll
    \/ TakeSubPatterns \/ PropagateError

InitSpecPatterns == InitPatterns /\ IdleConfig /\ IdleDomain /\ IdleGitRoot

SpecPatterns == InitSpecPatterns /\ [][NextPatterns]_vars

(***************************************************************************)
(*                      Properties of readPatterns                         *)
(***************************************************************************)

\* The pattern lists there are: each active call's ps and the returned one.
PatternLists == { stack[i].ps : i \in 1..Len(stack) } \cup { ret.ps }

IsProperPrefix(a, b) == Len(a) < Len(b) /\ SubSeq(b, 1, Len(a)) = a

\* Where a name comes in a directory listing.
ListingRank(nm) == CHOOSE i \in 1..Len(EntryNames) : EntryNames[i] = nm

\* The first position where two directories, neither inside the other, differ.
DivergeAt(a, b) == CHOOSE k \in 1..Len(a) : a[k] # b[k] /\ SubSeq(a, 1, k - 1) = SubSeq(b, 1, k - 1)

\* p is to come before q: p's directory holds q's; or it is the same
\* directory and p's file comes first in defaultIgnoreFiles, or it is the
\* same file and p's line comes first; or p's subtree is listed first.
ComesBefore(p, q) ==
    IF p.at = q.at
    THEN p.file < q.file \/ (p.file = q.file /\ p.lineNo < q.lineNo)
    ELSE IF IsProperPrefix(p.at, q.at) THEN TRUE
    ELSE IF IsProperPrefix(q.at, p.at) THEN FALSE
    ELSE ListingRank(p.at[DivergeAt(p.at, q.at)]) < ListingRank(q.at[DivergeAt(p.at, q.at)])

\* C7: in the sequence readPatterns returns, a directory's patterns come
\* before those of every directory below it, within a directory in the order
\* of defaultIgnoreFiles and then of the lines, and sibling subtrees in
\* directory-listing order.
C7_ParentPatternsFirst ==
    ret.set =>
        \A i, j \in 1..Len(ret.ps) : i < j => ComesBefore(ret.ps[i], ret.ps[j])

\* The whole tree was read: two lines of the root's .gitignore, then one
\* line of an ignore file two levels down.
C7_Witness ==
    /\ rpc = "done"
    /\ ret.err = NilErr
    /\ Len(ret.ps) = 3
    /\ ret.ps[1].at = <<>> /\ ret.ps[2].at = <<>>
    /\ ret.ps[2].lineNo > ret.ps[1].lineNo
    /\ ret.ps[3].at = << "a", "a" >>

IsFailure(e) == e.outcome = "error"
FailureErr(e) == [op |-> e.op, at |-> e.at, file |-> e.file]

\* The directories readPatterns is to read: those not in or under a .git.
Visitable == { d \in dirs : \A i \in 1..Len(d) : d[i] # gitDir }

ExpectedCalls ==
    { [op |-> "open", at |-> d, file |-> defaultIgnoreFiles[k]] :
        d \in Visitable, k \in 1..Len(defaultIgnoreFiles) }
    \cup { [op |-> "readdir", at |-> d, file |-> ""] : d \in Visitable }

LoggedCalls == { FailureErr(fsLog[i]) : i \in 1..Len(fsLog) }

\* C8: readPatterns returns an error exactly when an Open failed for a
\* reason other than not-exist or a ReadDir failed; that failure is the last
\* file-system call made and its error is the one every call returns; a
\* missing file gives no pattern and, with no failure, every ignore file of
\* every directory is tried and every directory listed.
C8_ErrorIffFailureAndStops ==
    /\ \A i \in 1..(Len(fsLog) - 1) : ~IsFailure(fsLog[i])
    /\ ret.set =>
          /\ ret.err # NilErr <=> (fsLog # <<>> /\ IsFailure(fsLog[Len(fsLog)]))
          /\ ret.err # NilErr => ret.err = FailureErr(fsLog[Len(fsLog)])
          /\ \A i \in 1..Len(fsLog) : \A k \in 1..Len(ret.ps) :
                fsLog[i].outcome = "notexist" =>
                    ~(/\ ret.ps[k].at = fsLog[i].at
                      /\ defaultIgnoreFiles[ret.ps[k].file] = fsLog[i].file)
    /\ (rpc = "done" /\ ret.err = NilErr) =>
          /\ LoggedCalls = ExpectedCalls
          /\ Len(fsLog) = Cardinality(ExpectedCalls)

\* An ignore file two levels down could not be opened, after missing files
\* and after the root's .gitignore was read: the outermost call returned that
\* error and its own patterns.
C8_Witness ==
    /\ rpc = "done"
    /\ ret.err = [op |-> "open", at |-> << "a", "a" >>, file |-> ".ignore"]
    /\ Len(ret.ps) = 2
    /\ \E i \in 1..Len(fsLog) : fsLog[i].outcome = "notexist"

\* C9: the domain of every collected pattern is, and stays, the path of the
\* directory whose ignore file the line was read from.
C9_DomainIsDirectoryOfOrigin ==
    \A ps \in PatternLists :
        \A k \in 1..Len(ps) : DomainOf(heap, ps[k]) = ps[k].at

\* The same, for a ParsePattern that copies the domain it is given.
C9_DomainIsDirectoryOfOriginIfCopied ==
    ~patternKeepsSlice => C9_DomainIsDirectoryOfOrigin

====
